---- MODULE Spec2Model ----
(***************************************************************************)
(* Model of the library seat reservation application: the in-memory store *)
(* (src/services/mockDb.ts: SeatService, ReservationService, AuthService), *)
(* the assistant gateway (src/services/geminiService.ts) with the ChatBot  *)
(* component, and the App component (src/App.tsx).                         *)
(*                                                                         *)
(* Specifications: Spec (the store's seat and reservation services),       *)
(* SpecLong (the same over more than four hours), SpecAuth (login),        *)
(* SpecGemini (the assistant), SpecApp (the UI driving the store).         *)
(*                                                                         *)
(* Every service function is `async`: it first awaits delay(ms) and then   *)
(* runs its body without any further await.  A call is therefore two       *)
(* steps: the call itself, which arms the timer (a record appended to     *)
(* `pending`), and the continuation after the timer, which runs the whole  *)
(* body atomically (JavaScript runs a continuation to completion).         *)
(*                                                                         *)
(* Time: `now` is the reading of Date.now().  delay(ms) is a timer: the     *)
(* continuation runs at some instant strictly after the call (setTimeout   *)
(* gives a lower bound only); how long the timers last is left open, so    *)
(* every interleaving of the continuations is a behaviour of the model.    *)
(* Strings built by template literals are sequences of one-character (or   *)
(* literal-chunk) strings, so that two ids are equal exactly when the      *)
(* formatted texts are equal.                                              *)
(***************************************************************************)
EXTENDS Integers, Sequences, FiniteSets, Bags, TLC

VARIABLES dbSeats, dbReservations, dbUsers, now, pending, lastResult

(* ------------------------------ bounds --------------------------------- *)
MaxClock == 3
MaxInFlight == 2
MaxQueriesInFlight == 1
MaxReservations == 3
MaxMessages == 7
MaxTasks == 3

(* ------------------------- program constants --------------------------- *)
FloorCount == 3
SeatsPerFloor == 20
FourHours == 4 * 60 * 60 * 1000

MOCK_LIBRARY_ID == "lib-001"

ACTIVE == "ACTIVE"
CANCELED == "CANCELED"
EXPIRED == "EXPIRED"
ReservationStatus == {ACTIVE, CANCELED, EXPIRED}

(* JavaScript null / undefined *)
Null == [kind |-> "null"]
Undefined == <<>>

(* ------------------------------ strings -------------------------------- *)
DigitChar == <<"0", "1", "2", "3", "4", "5", "6", "7", "8", "9">>

RECURSIVE NumberToString(_)
(* Number.prototype.toString / template interpolation of a natural *)
NumberToString(n) ==
    IF n < 10 THEN <<DigitChar[n + 1]>>
    ELSE NumberToString(n \div 10) \o <<DigitChar[(n % 10) + 1]>>

RECURSIVE PadStart(_, _, _)
(* String.prototype.padStart(targetLength, padString) for a one-char pad *)
PadStart(s, targetLength, padChar) ==
    IF Len(s) >= targetLength THEN s
    ELSE PadStart(<<padChar>> \o s, targetLength, padChar)

(* `seat-${floor}-${i}` *)
SeatId(floor, i) == <<"seat-">> \o NumberToString(floor) \o <<"-">> \o NumberToString(i)

(* `${floor}F-${i.toString().padStart(2, '0')}` *)
SeatLabel(floor, i) == NumberToString(floor) \o <<"F-">> \o PadStart(NumberToString(i), 2, "0")

(* `res-${Date.now()}` *)
ReservationId(t) == <<"res-">> \o NumberToString(t)

(* new Date(t).toISOString(): seconds and the fraction below the second *)
ToISOString(t) == [sec |-> t \div 1000, frac |-> t % 1000]

(* new Date(iso).getTime() *)
GetTime(iso) == iso.sec * 1000 + iso.frac

(* ------------------------------- seats --------------------------------- *)
RECURSIVE FloorSeats(_, _)
(* the inner for-loop of generateSeats: seats i..20 of one floor *)
FloorSeats(floor, i) ==
    IF i > SeatsPerFloor THEN <<>>
    ELSE <<[id |-> SeatId(floor, i),
            library_id |-> MOCK_LIBRARY_ID,
            label |-> SeatLabel(floor, i),
            floor |-> floor,
            is_active |-> TRUE]>> \o FloorSeats(floor, i + 1)

RECURSIVE SeatsFrom(_)
(* floors.forEach of generateSeats, floors = [1, 2, 3] *)
SeatsFrom(floor) ==
    IF floor > FloorCount THEN <<>>
    ELSE FloorSeats(floor, 1) \o SeatsFrom(floor + 1)

generateSeats == SeatsFrom(1)

(* --------------------------- array helpers ----------------------------- *)
(* Array.prototype.findIndex / find: the first position whose test result *)
(* is true, 0 standing for "not found" (-1, undefined); Array.prototype    *)
(* .filter is SelectSeq                                                    *)
FindIndex(tests) ==
    IF \E i \in DOMAIN tests : tests[i]
    THEN CHOOSE i \in DOMAIN tests : tests[i] /\ \A j \in 1..(i - 1) : ~tests[j]
    ELSE 0

RECURSIVE InsertDesc_Ascending(_, _)
(* InsertDesc with the comparator's operands exchanged (a - b) *)
InsertDesc_Ascending(sorted, r) ==
    IF sorted = <<>> THEN <<r>>
    ELSE IF GetTime(Head(sorted).start_at) - GetTime(r.start_at) > 0
         THEN <<r>> \o sorted
         ELSE <<Head(sorted)>> \o InsertDesc_Ascending(Tail(sorted), r)

RECURSIVE InsertDesc(_, _)
(* insert r behind every element that does not sort after it under the     *)
(* comparator (a, b) => time(b.start_at) - time(a.start_at)                *)
InsertDesc(sorted, r) ==
    IF sorted = <<>> THEN <<r>>
    ELSE IF GetTime(r.start_at) - GetTime(Head(sorted).start_at) > 0
         THEN <<r>> \o sorted
         ELSE <<Head(sorted)>> \o InsertDesc(Tail(sorted), r)

RECURSIVE SortByStartDesc(_)
(* Array.prototype.sort (stable) with the comparator of getHistory *)
SortByStartDesc(s) ==
    IF s = <<>> THEN <<>>
    ELSE InsertDesc(SortByStartDesc(SubSeq(s, 1, Len(s) - 1)), s[Len(s)])

(* --------------------------- service bodies ---------------------------- *)
(* an optional number argument is <<>> when omitted and <<n>> when given;  *)
(* JavaScript truthiness of such an argument                               *)
Truthy(arg) == arg # Undefined /\ arg[1] # 0

(* getSeats that takes the seat ids of all reservations, ACTIVE or not *)
GetSeats_IgnoresStatus(seats, reservations, floor) ==
    LET occupiedSeatIds == {reservations[k].seat_id : k \in DOMAIN reservations}
        wanted(s) == IF Truthy(floor) THEN s.floor = floor[1] ELSE TRUE
        kept == SelectSeq(seats, wanted)
    IN  [k \in DOMAIN kept |->
            [id |-> kept[k].id,
             library_id |-> kept[k].library_id,
             label |-> kept[k].label,
             floor |-> kept[k].floor,
             is_active |-> kept[k].is_active,
             status |-> IF kept[k].id \in occupiedSeatIds THEN "OCCUPIED" ELSE "AVAILABLE"]]

(* SeatService.getSeats after the delay *)
GetSeats(seats, reservations, floor) ==
    LET activeReservations == SelectSeq(reservations, LAMBDA r : r.status = ACTIVE)
        occupiedSeatIds == {activeReservations[k].seat_id : k \in DOMAIN activeReservations}
        \* `floor ? s.floor === floor : true`: undefined and 0 are falsy
        wanted(s) == IF Truthy(floor) THEN s.floor = floor[1] ELSE TRUE
        kept == SelectSeq(seats, wanted)
    IN  [k \in DOMAIN kept |->
            [id |-> kept[k].id,
             library_id |-> kept[k].library_id,
             label |-> kept[k].label,
             floor |-> kept[k].floor,
             is_active |-> kept[k].is_active,
             status |-> IF kept[k].id \in occupiedSeatIds THEN "OCCUPIED" ELSE "AVAILABLE"]]

(* ReservationService.getActiveReservation after the delay *)
GetActiveReservation(reservations, userId) ==
    LET i == FindIndex([k \in DOMAIN reservations |->
        reservations[k].user_id = userId /\ reservations[k].status = ACTIVE])
    IN  IF i = 0 THEN Null ELSE reservations[i]

(* ReservationService.getHistory after the delay *)
GetHistory(reservations, userId) ==
    SortByStartDesc(SelectSeq(reservations, LAMBDA r : r.user_id = userId))

(* step 1 of create: the user's ACTIVE reservation, 0 if none *)
ExistingOfUser(reservations, userId) ==
    FindIndex([k \in DOMAIN reservations |->
        reservations[k].user_id = userId /\ reservations[k].status = ACTIVE])

(* step 2 of create: the ACTIVE reservation of the seat, 0 if none *)
OccupantOfSeat(reservations, seatId) ==
    FindIndex([k \in DOMAIN reservations |->
        reservations[k].seat_id = seatId /\ reservations[k].status = ACTIVE])

(* step 3 of create: the new reservation object *)
NewReservation(userId, seatId, t) ==
    [id |-> ReservationId(t),
     seat_id |-> seatId,
     user_id |-> userId,
     status |-> ACTIVE,
     start_at |-> ToISOString(t),
     end_at |-> ToISOString(t + FourHours),
     canceled_at |-> Undefined]

USER_CONFLICT == "You already have an active reservation. Please cancel it first."
SEAT_CONFLICT == "This seat is already reserved by another user."

(* create without step 1 *)
CreateBody_NoUserCheck(reservations, userId, seatId, t) ==
    IF OccupantOfSeat(reservations, seatId) # 0
    THEN [outcome |-> "rejected", value |-> SEAT_CONFLICT, reservations |-> reservations]
    ELSE [outcome |-> "resolved",
          value |-> NewReservation(userId, seatId, t),
          reservations |-> Append(reservations, NewReservation(userId, seatId, t))]

(* create without step 2 *)
CreateBody_NoSeatCheck(reservations, userId, seatId, t) ==
    IF ExistingOfUser(reservations, userId) # 0
    THEN [outcome |-> "rejected", value |-> USER_CONFLICT, reservations |-> reservations]
    ELSE [outcome |-> "resolved",
          value |-> NewReservation(userId, seatId, t),
          reservations |-> Append(reservations, NewReservation(userId, seatId, t))]

(* create with steps 1 and 2 exchanged *)
CreateBody_SeatCheckFirst(reservations, userId, seatId, t) ==
    IF OccupantOfSeat(reservations, seatId) # 0
    THEN [outcome |-> "rejected", value |-> SEAT_CONFLICT, reservations |-> reservations]
    ELSE IF ExistingOfUser(reservations, userId) # 0
    THEN [outcome |-> "rejected", value |-> USER_CONFLICT, reservations |-> reservations]
    ELSE [outcome |-> "resolved",
          value |-> NewReservation(userId, seatId, t),
          reservations |-> Append(reservations, NewReservation(userId, seatId, t))]

(* create that pushes the reservation before step 2 *)
CreateBody_PushBeforeSeatCheck(reservations, userId, seatId, t) ==
    IF ExistingOfUser(reservations, userId) # 0
    THEN [outcome |-> "rejected", value |-> USER_CONFLICT, reservations |-> reservations]
    ELSE IF OccupantOfSeat(reservations, seatId) # 0
    THEN [outcome |-> "rejected", value |-> SEAT_CONFLICT,
          reservations |-> Append(reservations, NewReservation(userId, seatId, t))]
    ELSE [outcome |-> "resolved",
          value |-> NewReservation(userId, seatId, t),
          reservations |-> Append(reservations, NewReservation(userId, seatId, t))]

(* ReservationService.create after the delay: the settled promise and the  *)
(* reservation list it leaves                                              *)
CreateBody(reservations, userId, seatId, t) ==
    IF ExistingOfUser(reservations, userId) # 0
    THEN [outcome |-> "rejected", value |-> USER_CONFLICT, reservations |-> reservations]
    ELSE IF OccupantOfSeat(reservations, seatId) # 0
    THEN [outcome |-> "rejected", value |-> SEAT_CONFLICT, reservations |-> reservations]
    ELSE [outcome |-> "resolved",
          value |-> NewReservation(userId, seatId, t),
          reservations |-> Append(reservations, NewReservation(userId, seatId, t))]

(* cancel that marks a reservation past its end time EXPIRED *)
CancelBody_ExpiresOverdue(reservations, reservationId, t) ==
    LET index == FindIndex([k \in DOMAIN reservations |->
        reservations[k].id = reservationId])
    IN  IF index # 0
        THEN [reservations EXCEPT ![index] =
                 [@ EXCEPT !.status = IF t > GetTime(reservations[index].end_at)
                                          THEN EXPIRED ELSE CANCELED,
                           !.canceled_at = ToISOString(t)]]
        ELSE reservations

(* cancel that removes the reservation from the list *)
CancelBody_Removes(reservations, reservationId, t) ==
    LET index == FindIndex([k \in DOMAIN reservations |->
        reservations[k].id = reservationId])
    IN  IF index # 0
        THEN SubSeq(reservations, 1, index - 1)
             \o SubSeq(reservations, index + 1, Len(reservations))
        ELSE reservations

(* cancel that, finding no reservation, cancels the last one *)
CancelBody_MissingCancelsLast(reservations, reservationId, t) ==
    LET found == FindIndex([k \in DOMAIN reservations |->
        reservations[k].id = reservationId])
        index == IF found # 0 THEN found ELSE Len(reservations)
    IN  IF index # 0
        THEN [reservations EXCEPT ![index] =
                 [@ EXCEPT !.status = CANCELED, !.canceled_at = ToISOString(t)]]
        ELSE reservations

(* ReservationService.cancel after the delay: the reservation list it leaves *)
CancelBody(reservations, reservationId, t) ==
    LET index == FindIndex([k \in DOMAIN reservations |->
        reservations[k].id = reservationId])
    IN  IF index # 0
        THEN [reservations EXCEPT ![index] =
                 [@ EXCEPT !.status = CANCELED, !.canceled_at = ToISOString(t)]]
        ELSE reservations

(* ------------------------------ inputs --------------------------------- *)
(* callers of the services; create does not look the user up in dbUsers *)
UserIds == {"user-1", "user-2"}

(* seat ids passed to create: two generated seats and the text `seat-1-01` *)
Seat_1_01 == <<"seat-", "1", "-", "0", "1">>
SeatInputs == {SeatId(1, 1), SeatId(2, 1), Seat_1_01}

(* floors passed to getSeats: none, 0, and a real floor *)
FloorInputs == {Undefined, <<0>>, <<1>>}

(* an id no reservation carries *)
UnknownReservationId == <<"res-", "x">>

(* ------------------------------- state --------------------------------- *)
(* dbSeats, dbReservations, dbUsers: the module-level arrays of mockDb.ts  *)
(* now: the clock read by Date.now()                                       *)
(* pending: the calls whose delay timer is armed (a bag: two equal calls   *)
(*          may be in flight together)                                     *)
(* lastResult: the promise settled last, with the call it belongs to       *)
(* user .. isLoading: the useState cells of App; interval: the interval    *)
(*          timers App has armed and not cleared                           *)
(* aiClient: the client of geminiService.ts; messages, chatIsLoading: the  *)
(*          useState cells of ChatBot; request: the call of the external   *)
(*          API in flight; returned: how sendMessageToGemini ended last    *)
VARIABLES user, view, activeReservation, seats, reservations,
          selectedFloor, selectedSeat, isLoading, interval,
          aiClient, messages, chatIsLoading, request, returned

appVars == <<user, view, activeReservation, seats, reservations,
             selectedFloor, selectedSeat, isLoading, interval>>

chatVars == <<aiClient, messages, chatIsLoading, request, returned>>

vars == <<dbSeats, dbReservations, dbUsers, now, pending, lastResult,
          appVars, chatVars>>

NoResult == [op |-> "none"]

(* e-mail addresses are sequences of chunks with "@" a chunk of its own *)
StudentEmail == <<"student", "@", "univ.ac.kr">>

(* the module-level state of mockDb.ts *)
DbInit ==
    /\ dbSeats = generateSeats
    /\ dbReservations = <<>>
    /\ dbUsers = <<[id |-> <<"user-", "1">>, email |-> StudentEmail, name |-> <<"Student Demo">>]>>
    /\ now = 0
    /\ pending = EmptyBag
    /\ lastResult = NoResult

(* ViewState *)
LOGIN == "LOGIN"
SIGNUP == "SIGNUP"
HOME == "HOME"
MY_RESERVATIONS == "MY_RESERVATIONS"
ViewState == {LOGIN, SIGNUP, HOME, MY_RESERVATIONS}

(* the useState initial values of App; no effect has armed a timer *)
AppInit ==
    /\ user = Null
    /\ view = LOGIN
    /\ activeReservation = Null
    /\ seats = <<>>
    /\ reservations = <<>>
    /\ selectedFloor = 1
    /\ selectedSeat = Null
    /\ isLoading = FALSE
    /\ interval = <<>>

GREETING == <<"Hi! I can help you with library rules or finding a quiet spot. How can I help?">>
NoReturn == [outcome |-> "none"]

(* the useState initial values of ChatBot; no call of the gateway yet *)
ChatBotInit ==
    /\ messages = <<[role |-> "model", text |-> GREETING]>>
    /\ chatIsLoading = FALSE
    /\ request = Null
    /\ returned = NoReturn

(* geminiService.ts at load: the client exists iff API_KEY is truthy *)
GeminiInit(API_KEY) ==
    aiClient = IF API_KEY # Undefined THEN [apiKey |-> API_KEY] ELSE Null

(* the program started without an API credential *)
Init ==
    /\ DbInit
    /\ AppInit
    /\ ChatBotInit
    /\ GeminiInit(Undefined)

InFlight == BagToSet(pending)

(* the number of pending calls of the operations in ops *)
CountInFlight(ops) ==
    LET RECURSIVE Sum(_)
        Sum(S) == IF S = {} THEN 0
                  ELSE LET p == CHOOSE x \in S : TRUE
                       IN  CopiesIn(p, pending) + Sum(S \ {p})
    IN  Sum({p \in InFlight : p.call.op \in ops})

CreatesInFlight == CountInFlight({"create"})
QueriesInFlight == CountInFlight({"getSeats", "getActiveReservation", "getHistory"})

(* the part of an async service function up to `await delay(ms)`: the      *)
(* timer is armed and cannot expire at the instant of the call             *)
Arm(call) ==
    /\ BagCardinality(pending) < MaxInFlight
    /\ now < MaxClock
    /\ pending' = pending (+) SetToBag({[call |-> call, expired |-> FALSE]})
    /\ UNCHANGED <<dbSeats, dbReservations, dbUsers, now, lastResult>>
    /\ UNCHANGED <<appVars, chatVars>>

CallGetSeats ==
    /\ QueriesInFlight < MaxQueriesInFlight
    /\ \E floor \in FloorInputs :
        Arm([op |-> "getSeats", floor |-> floor])

CallGetActiveReservation ==
    /\ QueriesInFlight < MaxQueriesInFlight
    /\ \E userId \in UserIds :
        Arm([op |-> "getActiveReservation", userId |-> userId])

CallGetHistory ==
    /\ QueriesInFlight < MaxQueriesInFlight
    /\ \E userId \in UserIds :
        Arm([op |-> "getHistory", userId |-> userId])

CallCreate ==
    \E userId \in UserIds, seatId \in SeatInputs :
        /\ Len(dbReservations) + CreatesInFlight < MaxReservations
        /\ Arm([op |-> "create", userId |-> userId, seatId |-> seatId])

(* cancel is called with the id read from a reservation the caller holds    *)
(* (`target` remembers which one, 0 for an id out of thin air)             *)
CallCancel ==
    \/ \E target \in DOMAIN dbReservations :
        Arm([op |-> "cancel", reservationId |-> dbReservations[target].id,
             target |-> target])
    \/ Arm([op |-> "cancel", reservationId |-> UnknownReservationId, target |-> 0])

(* the timer of pending call p has expired: its continuation may run *)
Due(p, op) ==
    /\ p \in InFlight
    /\ p.call.op = op
    /\ p.expired

(* the promise of pending call p settles *)
Settle(p, outcome, value) ==
    /\ pending' = pending (-) SetToBag({p})
    /\ lastResult' = [op |-> p.call.op, call |-> p.call, outcome |-> outcome, value |-> value]
    /\ UNCHANGED <<appVars, chatVars>>

ResumeGetSeats ==
    \E p \in InFlight :
        /\ Due(p, "getSeats")
        /\ Settle(p, "resolved", GetSeats(dbSeats, dbReservations, p.call.floor))
        /\ UNCHANGED <<dbSeats, dbReservations, dbUsers, now>>

ResumeGetActiveReservation ==
    \E p \in InFlight :
        /\ Due(p, "getActiveReservation")
        /\ Settle(p, "resolved", GetActiveReservation(dbReservations, p.call.userId))
        /\ UNCHANGED <<dbSeats, dbReservations, dbUsers, now>>

ResumeGetHistory ==
    \E p \in InFlight :
        /\ Due(p, "getHistory")
        /\ Settle(p, "resolved", GetHistory(dbReservations, p.call.userId))
        /\ UNCHANGED <<dbSeats, dbReservations, dbUsers, now>>

ResumeCreate ==
    \E p \in InFlight :
        /\ Due(p, "create")
        /\ LET body == CreateBody(dbReservations, p.call.userId, p.call.seatId, now)
           IN  /\ dbReservations' = body.reservations
               /\ Settle(p, body.outcome, body.value)
        /\ UNCHANGED <<dbSeats, dbUsers, now>>

ResumeCancel ==
    \E p \in InFlight :
        /\ Due(p, "cancel")
        /\ dbReservations' = CancelBody(dbReservations, p.call.reservationId, now)
        /\ Settle(p, "resolved", Undefined)
        /\ UNCHANGED <<dbSeats, dbUsers, now>>

(* mark every armed timer of bag b as expired *)
Expire(b) ==
    LET old == BagToSet(b)
        new == {[call |-> p.call, expired |-> TRUE] : p \in old}
        copies(q) == (IF q \in old THEN CopiesIn(q, b) ELSE 0)
                     + (IF [call |-> q.call, expired |-> FALSE] \in old
                        THEN CopiesIn([call |-> q.call, expired |-> FALSE], b) ELSE 0)
    IN  [q \in new |-> copies(q)]

(* time passes: the clock advances and the timers armed before it are due  *)
Tick ==
    /\ now < MaxClock
    /\ now' = now + 1
    /\ pending' = Expire(pending)
    /\ UNCHANGED <<dbSeats, dbReservations, dbUsers, lastResult>>
    /\ UNCHANGED <<appVars, chatVars>>

Next ==
    \/ CallGetSeats
    \/ CallGetActiveReservation
    \/ CallGetHistory
    \/ CallCreate
    \/ CallCancel
    \/ ResumeGetSeats
    \/ ResumeGetActiveReservation
    \/ ResumeGetHistory
    \/ ResumeCreate
    \/ ResumeCancel
    \/ Tick

Spec == Init /\ [][Next]_vars

(* more than four hours pass at once: every reservation made so far is     *)
(* past its end time, and the timers armed before are due                  *)
Sleep ==
    /\ now <= MaxClock
    /\ now' = now + FourHours + 1
    /\ pending' = Expire(pending)
    /\ UNCHANGED <<dbSeats, dbReservations, dbUsers, lastResult>>
    /\ UNCHANGED <<appVars, chatVars>>

NextLong ==
    \/ Next
    \/ Sleep

(* the store over a time span longer than a reservation lasts *)
SpecLong == Init /\ [][NextLong]_vars

(* ============================ AuthService ============================== *)
(* `user-${Date.now()}` *)
UserId(t) == <<"user-">> \o NumberToString(t)

(* email.split('@')[0]: the text before the first "@", all of it if none *)
EmailName(email) ==
    LET at == FindIndex([k \in DOMAIN email |-> email[k] = "@"])
    IN  IF at = 0 THEN email ELSE SubSeq(email, 1, at - 1)

(* e-mail addresses typed into the login form *)
EmailInputs == {StudentEmail, <<"kim", "@", "x.org">>, <<"lee", "@", "x.org">>}

(* login that does not look the e-mail up *)
LoginBody_AlwaysCreates(users, email, t) ==
    LET created == [id |-> UserId(t), email |-> email, name |-> EmailName(email)]
    IN  [value |-> created, users |-> Append(users, created)]

(* AuthService.login after the delay: the user it resolves with and the    *)
(* user list it leaves                                                     *)
LoginBody(users, email, t) ==
    LET index == FindIndex([k \in DOMAIN users |-> users[k].email = email])
        created == [id |-> UserId(t), email |-> email, name |-> EmailName(email)]
    IN  IF index # 0
        THEN [value |-> users[index], users |-> users]
        ELSE [value |-> created, users |-> Append(users, created)]

CallLogin ==
    \E email \in EmailInputs :
        Arm([op |-> "login", email |-> email])

ResumeLogin ==
    \E p \in InFlight :
        /\ Due(p, "login")
        /\ LET body == LoginBody(dbUsers, p.call.email, now)
           IN  /\ dbUsers' = body.users
               /\ Settle(p, "resolved", body.value)
        /\ UNCHANGED <<dbSeats, dbReservations, now>>

NextAuth ==
    \/ CallLogin
    \/ ResumeLogin
    \/ Tick

SpecAuth == Init /\ [][NextAuth]_vars

(* ========================= assistant gateway =========================== *)
(* src/services/geminiService.ts and its caller, the ChatBot component.    *)
(* Texts are sequences of chunks; the empty text and undefined are both <<>>. *)
OFFLINE_REPLY == <<"I'm sorry, I'm currently offline (API Key missing).">>
CONNECT_REPLY == <<"I'm having trouble connecting to the library network. Please try again later.">>
ERROR_CONNECTING == <<"Error connecting.">>
GEMINI_MODEL == "gemini-3-flash-preview"
SYSTEM_INSTRUCTION == "SYSTEM_INSTRUCTION"

RECURSIVE TrimStart(_)
TrimStart(s) ==
    IF s # <<>> /\ Head(s) = " " THEN TrimStart(Tail(s)) ELSE s

RECURSIVE TrimEnd(_)
TrimEnd(s) ==
    IF s # <<>> /\ s[Len(s)] = " " THEN TrimEnd(SubSeq(s, 1, Len(s) - 1)) ELSE s

(* String.prototype.trim *)
Trim(s) == TrimEnd(TrimStart(s))

(* values of process.env.API_KEY: unset, and a key *)
ApiKeys == {Undefined, <<"k">>}

(* what is typed into the chat input: blank, a word, a padded word *)
ChatInputs == {<<" ">>, <<"h", "i">>, <<" ", "o", "k", " ">>}

(* how the external generateContent call can end: a response with text, a  *)
(* response without text, a rejected promise                               *)
Responses ==
    {[kind |-> "fulfilled", text |-> <<"s", "u", "r", "e">>],
     [kind |-> "fulfilled", text |-> Undefined],
     [kind |-> "rejected"]}

(* the history handleSend builds from the messages shown *)
History(msgs) ==
    [k \in DOMAIN msgs |-> [role |-> msgs[k].role, parts |-> <<[text |-> msgs[k].text]>>]]

(* the transcript sent: the history and the new user turn *)
Contents(message, history) ==
    Append(history, [role |-> "user", parts |-> <<[text |-> message]>>])

(* sendMessageToGemini up to its first return or await *)
SendMessageStart(client, message, history) ==
    IF client = Null
    THEN [settled |-> TRUE, outcome |-> "returned", value |-> OFFLINE_REPLY]
    ELSE [settled |-> FALSE,
          request |-> [model |-> GEMINI_MODEL,
                       contents |-> Contents(message, history),
                       config |-> [systemInstruction |-> SYSTEM_INSTRUCTION]]]

(* sendMessageToGemini without the try/catch *)
SendMessageEnd_NoCatch(response) ==
    IF response.kind = "fulfilled"
    THEN [outcome |-> "returned", value |-> response.text]
    ELSE [outcome |-> "thrown", value |-> response.kind]

(* sendMessageToGemini from the end of the external call on *)
SendMessageEnd(response) ==
    IF response.kind = "fulfilled"
    THEN [outcome |-> "returned", value |-> response.text]
    ELSE [outcome |-> "returned", value |-> CONNECT_REPLY]

(* handleSend after `await sendMessageToGemini(..)`; if the call threw,    *)
(* the rest of handleSend does not run                                     *)
AfterSend(msgs, result) ==
    IF result.outcome = "returned"
    THEN [messages |-> Append(msgs, [role |-> "model",
                          text |-> IF result.value # <<>> THEN result.value
                                   ELSE ERROR_CONNECTING]),
          isLoading |-> FALSE]
    ELSE [messages |-> msgs, isLoading |-> TRUE]

(* the program started with any value of API_KEY *)
InitGemini ==
    /\ DbInit
    /\ AppInit
    /\ ChatBotInit
    /\ \E API_KEY \in ApiKeys : GeminiInit(API_KEY)

(* ChatBot.handleSend: without a client sendMessageToGemini returns at     *)
(* once and handleSend runs to its end; with a client the external call is *)
(* made, and either it throws at once or handleSend waits for it           *)
HandleSend ==
    \E input \in ChatInputs :
        /\ Trim(input) # <<>>
        /\ ~chatIsLoading
        /\ Len(messages) + 2 <= MaxMessages
        /\ LET userMsg == Trim(input)
               shown == Append(messages, [role |-> "user", text |-> userMsg])
               start == SendMessageStart(aiClient, userMsg, History(messages))
           IN  \/ /\ start.settled
                  /\ messages' = AfterSend(shown, start).messages
                  /\ chatIsLoading' = AfterSend(shown, start).isLoading
                  /\ request' = Null
                  /\ returned' = [outcome |-> start.outcome, value |-> start.value,
                                  cause |-> "offline"]
               \/ /\ ~start.settled
                  /\ messages' = shown
                  /\ chatIsLoading' = TRUE
                  /\ request' = start.request
                  /\ UNCHANGED returned
               \/ /\ ~start.settled
                  /\ LET end == SendMessageEnd([kind |-> "threw"])
                     IN  /\ messages' = AfterSend(shown, end).messages
                         /\ chatIsLoading' = AfterSend(shown, end).isLoading
                         /\ returned' = [outcome |-> end.outcome, value |-> end.value,
                                         cause |-> "threw"]
                  /\ request' = Null
        /\ UNCHANGED <<aiClient, appVars>>
        /\ UNCHANGED <<dbSeats, dbReservations, dbUsers, now, pending, lastResult>>

(* the external call ends and sendMessageToGemini, then handleSend, resume *)
ExternalSettles ==
    /\ request # Null
    /\ \E response \in Responses :
        LET end == SendMessageEnd(response)
        IN  /\ messages' = AfterSend(messages, end).messages
            /\ chatIsLoading' = AfterSend(messages, end).isLoading
            /\ returned' = [outcome |-> end.outcome, value |-> end.value,
                            cause |-> response.kind]
    /\ request' = Null
    /\ UNCHANGED <<aiClient, appVars>>
    /\ UNCHANGED <<dbSeats, dbReservations, dbUsers, now, pending, lastResult>>

NextGemini ==
    \/ HandleSend
    \/ ExternalSettles

SpecGemini == InitGemini /\ [][NextGemini]_vars

(* ================================ App ================================== *)
(* src/App.tsx.  An async handler is a chain of awaited service calls.  An *)
(* element of `pending` is here [call |-> the service call whose timer is  *)
(* armed, k |-> the handler waiting for it]: k.fn is the handler, k.who    *)
(* and k.floor are the `user` and `selectedFloor` of the render whose      *)
(* closure the handler is (as far as it reads them), k.by tells who started *)
(* it.  One step runs the                                                  *)
(* service body and the handler up to its next await, then the render and  *)
(* the effect that the state changes cause (React batches the setters of   *)
(* one continuation).  The instant of a continuation that reads the clock  *)
(* (login, create, cancel) is later than every earlier reading.            *)
FLOORS == <<1, 2, 3>>

(* what the user does: addresses typed, floors and seats clicked *)
AppEmails == {StudentEmail, <<"kim", "@", "x.org">>}
FloorClicks == {1, 2}
SeatClicks == {SeatId(1, 1), SeatId(2, 1)}

(* for a handler that does not read `user` or `selectedFloor` *)
NoUser == Null
NoFloor == 0

Waiting(call, fn, who, floor, by) ==
    [call |-> call, k |-> [fn |-> fn, who |-> who, floor |-> floor, by |-> by]]

(* the same handler waiting for its next service call *)
Then(p, call) == [call |-> call, k |-> p.k]

GetSeatsCall(floor) == [op |-> "getSeats", floor |-> <<floor>>]
GetActiveReservationCall(who) == [op |-> "getActiveReservation", userId |-> who.id]
GetHistoryCall(who) == [op |-> "getHistory", userId |-> who.id]

(* the dependency list of the effect misses `view` *)
DepsChanged_NoView(u, v, floor) ==
    \/ floor # selectedFloor
    \/ u # user

(* the effect's dependencies [view, selectedFloor, loadSeats,              *)
(* loadMyReservations] differ from those of the last render: loadSeats is  *)
(* a new function when selectedFloor changed, loadMyReservations when user *)
(* changed                                                                 *)
DepsChanged(u, v, floor) ==
    \/ v # view
    \/ floor # selectedFloor
    \/ u # user

(* the cleanup of the last effect run: it clears the timer that run armed  *)
(* (the youngest), if it armed one                                         *)
Cleanup(timers) ==
    IF timers # <<>> THEN SubSeq(timers, 1, Len(timers) - 1) ELSE timers

(* the calls the effect body starts: loadSeats() and loadMyReservations()  *)
(* in HOME, loadMyReservations() in MY_RESERVATIONS                        *)
EffectCalls(u, v, floor) ==
    (IF v = HOME
     THEN SetToBag({Waiting(GetSeatsCall(floor), "loadSeats", NoUser, floor, "effect")})
     ELSE EmptyBag)
    (+)
    (IF v \in {HOME, MY_RESERVATIONS} /\ u # Null
     THEN SetToBag({Waiting(GetActiveReservationCall(u), "loadMyReservations", u, NoFloor, "effect")})
     ELSE EmptyBag)

(* the timer the effect body arms: setInterval(loadSeats, 10000) in HOME *)
EffectInterval(v, floor) ==
    IF v = HOME THEN <<[floor |-> floor]>> ELSE <<>>

(* the end of every step: the handler leaves user, view, selectedFloor,    *)
(* isLoading and the waiting calls as given; the render that follows runs  *)
(* the cleanup and the effect if a dependency changed (loadSeats() in the  *)
(* effect sets isLoading)                                                  *)
Commit(u, v, floor, loading, waiting) ==
    LET changed == DepsChanged(u, v, floor)
        started == IF changed THEN EffectCalls(u, v, floor) ELSE EmptyBag
    IN  /\ BagCardinality(waiting (+) started) <= MaxTasks
        /\ user' = u
        /\ view' = v
        /\ selectedFloor' = floor
        /\ isLoading' = IF changed /\ v = HOME THEN TRUE ELSE loading
        /\ pending' = waiting (+) started
        /\ interval' = IF changed
                       THEN Cleanup(interval) \o EffectInterval(v, floor)
                       ELSE interval

Start(p) == pending (+) SetToBag({p})
Finish(p) == pending (-) SetToBag({p})
Continue(p, call) == (pending (-) SetToBag({p})) (+) SetToBag({Then(p, call)})

(* calls of login, create and cancel whose clock reading is still to come *)
ClockReadsInFlight == CountInFlight({"login", "create", "cancel"})

(* ----------------------------- UI events ------------------------------- *)
(* the login form is submitted (its button is disabled while isLoading) *)
SubmitLogin ==
    \E email \in AppEmails :
        /\ view = LOGIN
        /\ ~isLoading
        /\ now + ClockReadsInFlight < MaxClock
        /\ Commit(user, view, selectedFloor, TRUE,
                  Start(Waiting([op |-> "login", email |-> email],
                                "handleLogin", NoUser, NoFloor, "click")))
        /\ UNCHANGED <<dbSeats, dbReservations, dbUsers, now, lastResult, chatVars>>
        /\ UNCHANGED <<activeReservation, seats, reservations, selectedSeat>>

(* the title, the tab or the back button: setView(HOME) *)
ClickHome ==
    /\ view # LOGIN
    /\ Commit(user, HOME, selectedFloor, isLoading, pending)
    /\ UNCHANGED <<dbSeats, dbReservations, dbUsers, now, lastResult, chatVars>>
    /\ UNCHANGED <<activeReservation, seats, reservations, selectedSeat>>

(* the tab or the banner button: setView(MY_RESERVATIONS) *)
ClickMyReservations ==
    /\ view # LOGIN
    /\ Commit(user, MY_RESERVATIONS, selectedFloor, isLoading, pending)
    /\ UNCHANGED <<dbSeats, dbReservations, dbUsers, now, lastResult, chatVars>>
    /\ UNCHANGED <<activeReservation, seats, reservations, selectedSeat>>

(* the logout button: setUser(null); setView(LOGIN) *)
ClickLogout ==
    /\ view # LOGIN
    /\ Commit(Null, LOGIN, selectedFloor, isLoading, pending)
    /\ UNCHANGED <<dbSeats, dbReservations, dbUsers, now, lastResult, chatVars>>
    /\ UNCHANGED <<activeReservation, seats, reservations, selectedSeat>>

(* a floor button: setSelectedFloor(floor); setSelectedSeat(null) *)
ClickFloor ==
    \E i \in DOMAIN FLOORS :
        /\ view = HOME
        /\ FLOORS[i] \in FloorClicks
        /\ selectedSeat' = Null
        /\ Commit(user, view, FLOORS[i], isLoading, pending)
        /\ UNCHANGED <<dbSeats, dbReservations, dbUsers, now, lastResult, chatVars>>
        /\ UNCHANGED <<activeReservation, seats, reservations>>

(* a seat of the grid that is not OCCUPIED: select it, or deselect it *)
ClickSeat ==
    \E i \in DOMAIN seats :
        /\ view = HOME
        /\ seats[i].id \in SeatClicks
        /\ seats[i].status # "OCCUPIED"
        /\ selectedSeat' = IF selectedSeat # Null /\ selectedSeat.id = seats[i].id
                           THEN Null ELSE seats[i]
        /\ Commit(user, view, selectedFloor, isLoading, pending)
        /\ UNCHANGED <<dbSeats, dbReservations, dbUsers, now, lastResult, chatVars>>
        /\ UNCHANGED <<activeReservation, seats, reservations>>

(* the confirm button of the sticky footer (disabled while isLoading):     *)
(* handleReserve up to `await ReservationService.create(..)`                *)
ClickReserve ==
    /\ view = HOME
    /\ selectedSeat # Null
    /\ ~isLoading
    /\ user # Null
    /\ now + ClockReadsInFlight < MaxClock
    /\ Commit(user, view, selectedFloor, TRUE,
              Start(Waiting([op |-> "create", userId |-> user.id, seatId |-> selectedSeat.id],
                            "handleReserve", user, selectedFloor, "click")))
    /\ UNCHANGED <<dbSeats, dbReservations, dbUsers, now, lastResult, chatVars>>
    /\ UNCHANGED <<activeReservation, seats, reservations, selectedSeat>>

(* the cancel button of an ACTIVE entry of the list shown, and the confirm *)
(* dialog answered with OK: handleCancel up to `await ..cancel(..)`        *)
ClickCancel ==
    \E i \in DOMAIN reservations :
        /\ view = MY_RESERVATIONS
        /\ reservations[i].status = ACTIVE
        /\ now + ClockReadsInFlight < MaxClock
        /\ Commit(user, view, selectedFloor, TRUE,
                  Start(Waiting([op |-> "cancel", reservationId |-> reservations[i].id],
                                "handleCancel", user, selectedFloor, "click")))
        /\ UNCHANGED <<dbSeats, dbReservations, dbUsers, now, lastResult, chatVars>>
        /\ UNCHANGED <<activeReservation, seats, reservations, selectedSeat>>

(* an armed interval timer fires: loadSeats of the render that armed it,   *)
(* up to `await SeatService.getSeats(selectedFloor)`                       *)
IntervalFires ==
    \E i \in DOMAIN interval :
        /\ Commit(user, view, selectedFloor, TRUE,
                  Start(Waiting(GetSeatsCall(interval[i].floor),
                                "loadSeats", NoUser, interval[i].floor, "interval")))
        /\ UNCHANGED <<dbSeats, dbReservations, dbUsers, now, lastResult, chatVars>>
        /\ UNCHANGED <<activeReservation, seats, reservations, selectedSeat>>

(* --------------------------- continuations ----------------------------- *)
(* loadSeats that drops a response of another floor or view *)
SeatsAfterLoad_Guarded(p, data) ==
    IF p.k.floor = selectedFloor /\ view = HOME THEN data ELSE seats

(* loadSeats after `await SeatService.getSeats(..)`: setSeats(data) *)
SeatsAfterLoad(p, data) == data

(* `await loadMyReservations()` in a handler: the first call it waits for; *)
(* without a user loadMyReservations returns at once and loadSeats() is    *)
(* next                                                                    *)
ReloadCall(p) ==
    IF p.k.who # Null THEN GetActiveReservationCall(p.k.who)
    ELSE GetSeatsCall(p.k.floor)

(* a loadSeats started by the effect or by a timer resumes *)
ResumeLoadSeats ==
    \E p \in InFlight :
        /\ p.k.fn = "loadSeats"
        /\ seats' = SeatsAfterLoad(p, GetSeats(dbSeats, dbReservations, p.call.floor))
        /\ Commit(user, view, selectedFloor, FALSE, Finish(p))
        /\ UNCHANGED <<dbSeats, dbReservations, dbUsers, now, lastResult, chatVars>>
        /\ UNCHANGED <<activeReservation, reservations, selectedSeat>>

(* a loadMyReservations started by the effect resumes *)
ResumeLoadMyReservations ==
    \E p \in InFlight :
        /\ p.k.fn = "loadMyReservations"
        /\ \/ /\ p.call.op = "getActiveReservation"
              /\ activeReservation' = GetActiveReservation(dbReservations, p.call.userId)
              /\ Commit(user, view, selectedFloor, isLoading,
                        Continue(p, GetHistoryCall(p.k.who)))
              /\ UNCHANGED reservations
           \/ /\ p.call.op = "getHistory"
              /\ reservations' = GetHistory(dbReservations, p.call.userId)
              /\ Commit(user, view, selectedFloor, isLoading, Finish(p))
              /\ UNCHANGED activeReservation
        /\ UNCHANGED <<dbSeats, dbReservations, dbUsers, now, lastResult, chatVars>>
        /\ UNCHANGED <<seats, selectedSeat>>

(* handleLogin after `await AuthService.login(email)` *)
ResumeHandleLogin ==
    \E p \in InFlight :
        /\ p.k.fn = "handleLogin"
        /\ LET body == LoginBody(dbUsers, p.call.email, now + 1)
           IN  /\ dbUsers' = body.users
               /\ Commit(body.value, HOME, selectedFloor, FALSE, Finish(p))
        /\ now' = now + 1
        /\ UNCHANGED <<dbSeats, dbReservations, lastResult, chatVars>>
        /\ UNCHANGED <<activeReservation, seats, reservations, selectedSeat>>

(* handleReserve after each of its awaits: create, then the two queries of *)
(* loadMyReservations, then the query of loadSeats                         *)
ResumeHandleReserve ==
    \E p \in InFlight :
        /\ p.k.fn = "handleReserve"
        /\ \/ /\ p.call.op = "create"
              /\ LET body == CreateBody(dbReservations, p.call.userId, p.call.seatId, now + 1)
                 IN  /\ dbReservations' = body.reservations
                     /\ IF body.outcome = "resolved"
                        THEN Commit(user, view, selectedFloor,
                                    IF p.k.who # Null THEN isLoading ELSE TRUE,
                                    Continue(p, ReloadCall(p)))
                        ELSE Commit(user, view, selectedFloor, FALSE, Finish(p))
              /\ now' = now + 1
              /\ UNCHANGED <<activeReservation, reservations, seats, selectedSeat>>
           \/ /\ p.call.op = "getActiveReservation"
              /\ activeReservation' = GetActiveReservation(dbReservations, p.call.userId)
              /\ Commit(user, view, selectedFloor, isLoading,
                        Continue(p, GetHistoryCall(p.k.who)))
              /\ UNCHANGED <<dbReservations, now, reservations, seats, selectedSeat>>
           \/ /\ p.call.op = "getHistory"
              /\ reservations' = GetHistory(dbReservations, p.call.userId)
              /\ Commit(user, view, selectedFloor, TRUE,
                        Continue(p, GetSeatsCall(p.k.floor)))
              /\ UNCHANGED <<dbReservations, now, activeReservation, seats, selectedSeat>>
           \/ /\ p.call.op = "getSeats"
              /\ seats' = SeatsAfterLoad(p, GetSeats(dbSeats, dbReservations, p.call.floor))
              /\ selectedSeat' = Null
              /\ Commit(user, view, selectedFloor, FALSE, Finish(p))
              /\ UNCHANGED <<dbReservations, now, activeReservation, reservations>>
        /\ UNCHANGED <<dbSeats, dbUsers, lastResult, chatVars>>

(* handleCancel after each of its awaits: cancel, then the two queries of  *)
(* loadMyReservations, then the query of loadSeats                         *)
ResumeHandleCancel ==
    \E p \in InFlight :
        /\ p.k.fn = "handleCancel"
        /\ \/ /\ p.call.op = "cancel"
              /\ dbReservations' = CancelBody(dbReservations, p.call.reservationId, now + 1)
              /\ Commit(user, view, selectedFloor,
                        IF p.k.who # Null THEN isLoading ELSE TRUE,
                        Continue(p, ReloadCall(p)))
              /\ now' = now + 1
              /\ UNCHANGED <<activeReservation, reservations, seats>>
           \/ /\ p.call.op = "getActiveReservation"
              /\ activeReservation' = GetActiveReservation(dbReservations, p.call.userId)
              /\ Commit(user, view, selectedFloor, isLoading,
                        Continue(p, GetHistoryCall(p.k.who)))
              /\ UNCHANGED <<dbReservations, now, reservations, seats>>
           \/ /\ p.call.op = "getHistory"
              /\ reservations' = GetHistory(dbReservations, p.call.userId)
              /\ Commit(user, view, selectedFloor, TRUE,
                        Continue(p, GetSeatsCall(p.k.floor)))
              /\ UNCHANGED <<dbReservations, now, activeReservation, seats>>
           \/ /\ p.call.op = "getSeats"
              /\ seats' = SeatsAfterLoad(p, GetSeats(dbSeats, dbReservations, p.call.floor))
              /\ Commit(user, view, selectedFloor, FALSE, Finish(p))
              /\ UNCHANGED <<dbReservations, now, activeReservation, reservations>>
        /\ UNCHANGED <<dbSeats, dbUsers, lastResult, chatVars, selectedSeat>>

NextApp ==
    \/ SubmitLogin
    \/ ClickHome
    \/ ClickMyReservations
    \/ ClickLogout
    \/ ClickFloor
    \/ ClickSeat
    \/ ClickReserve
    \/ ClickCancel
    \/ IntervalFires
    \/ ResumeLoadSeats
    \/ ResumeLoadMyReservations
    \/ ResumeHandleLogin
    \/ ResumeHandleReserve
    \/ ResumeHandleCancel

SpecApp == Init /\ [][NextApp]_vars

(* ======================= vocabulary of the claims ====================== *)
Range(s) == {s[i] : i \in DOMAIN s}

(* userId holds an ACTIVE reservation in the list rs *)
HoldsActive(rs, userId) ==
    \E i \in DOMAIN rs : rs[i].user_id = userId /\ rs[i].status = ACTIVE

(* seatId is referenced by an ACTIVE reservation of the list rs *)
SeatTaken(rs, seatId) ==
    \E i \in DOMAIN rs : rs[i].seat_id = seatId /\ rs[i].status = ACTIVE

(* this step is the continuation of pending call p *)
Resumes(p) == pending' = pending (-) SetToBag({p})

(* the promise settled last belongs to a call of operation op *)
Settled(op) == lastResult.op = op

(* how often each element occurs in a sequence *)
Occurrences(s) == [x \in Range(s) |-> Cardinality({i \in DOMAIN s : s[i] = x})]

(* ------------------------------- C1 ------------------------------------ *)
(* C1: in every reachable state each user id has at most one reservation   *)
(* with status ACTIVE, whatever creates and cancels ran and however their  *)
(* delays overlapped.                                                      *)
C1_OneActivePerUser ==
    \A i, j \in DOMAIN dbReservations :
        (/\ dbReservations[i].user_id = dbReservations[j].user_id
         /\ dbReservations[i].status = ACTIVE
         /\ dbReservations[j].status = ACTIVE) => i = j

(* two creates of one user were in flight together (both settled at the    *)
(* same instant, each strictly after its call): one made the reservation,  *)
(* the other was rejected                                                  *)
C1_Witness ==
    /\ Settled("create")
    /\ lastResult.outcome = "rejected"
    /\ lastResult.value = USER_CONFLICT
    /\ \E i \in DOMAIN dbReservations :
        /\ dbReservations[i].user_id = lastResult.call.userId
        /\ dbReservations[i].status = ACTIVE
        /\ GetTime(dbReservations[i].start_at) = now

(* ------------------------------- C2 ------------------------------------ *)
(* C2: in every reachable state each seat id is referenced by at most one  *)
(* reservation with status ACTIVE, also when creates of different users    *)
(* for one seat overlap.                                                   *)
C2_OneActivePerSeat ==
    \A i, j \in DOMAIN dbReservations :
        (/\ dbReservations[i].seat_id = dbReservations[j].seat_id
         /\ dbReservations[i].status = ACTIVE
         /\ dbReservations[j].status = ACTIVE) => i = j

(* two users' creates for one seat settled at the same instant: one holds  *)
(* the seat, the other was rejected                                        *)
C2_Witness ==
    /\ Settled("create")
    /\ lastResult.outcome = "rejected"
    /\ lastResult.value = SEAT_CONFLICT
    /\ \E i \in DOMAIN dbReservations :
        /\ dbReservations[i].seat_id = lastResult.call.seatId
        /\ dbReservations[i].user_id # lastResult.call.userId
        /\ dbReservations[i].status = ACTIVE
        /\ GetTime(dbReservations[i].start_at) = now

(* ------------------------------- C3 ------------------------------------ *)
(* C3: when the continuation of create(userId, seatId) runs while userId   *)
(* holds an ACTIVE reservation, the promise is rejected with the           *)
(* user-conflict error, for a free and for an occupied seat alike, and the *)
(* reservation list is unchanged.                                          *)
C3_UserConflictFirst ==
    [][\A p \in InFlight :
        (/\ p.call.op = "create"
         /\ Resumes(p)
         /\ HoldsActive(dbReservations, p.call.userId))
        => (/\ lastResult'.op = "create"
            /\ lastResult'.outcome = "rejected"
            /\ lastResult'.value = USER_CONFLICT
            /\ dbReservations' = dbReservations)]_vars

(* a create was rejected with the user conflict although its seat is held  *)
(* by another user as well: both conflicts applied                         *)
C3_Witness ==
    /\ Settled("create")
    /\ lastResult.outcome = "rejected"
    /\ lastResult.value = USER_CONFLICT
    /\ HoldsActive(dbReservations, lastResult.call.userId)
    /\ \E i \in DOMAIN dbReservations :
        /\ dbReservations[i].seat_id = lastResult.call.seatId
        /\ dbReservations[i].user_id # lastResult.call.userId
        /\ dbReservations[i].status = ACTIVE

(* ------------------------------- C4 ------------------------------------ *)
(* C4: when the continuation of create(userId, seatId) runs while userId   *)
(* holds no ACTIVE reservation and seatId is referenced by an ACTIVE       *)
(* reservation, the promise is rejected with the seat-conflict error and   *)
(* the reservation list is unchanged.                                      *)
C4_SeatConflict ==
    [][\A p \in InFlight :
        (/\ p.call.op = "create"
         /\ Resumes(p)
         /\ ~HoldsActive(dbReservations, p.call.userId)
         /\ SeatTaken(dbReservations, p.call.seatId))
        => (/\ lastResult'.op = "create"
            /\ lastResult'.outcome = "rejected"
            /\ lastResult'.value = SEAT_CONFLICT
            /\ dbReservations' = dbReservations)]_vars

(* a create of a user without ACTIVE reservation was rejected because the  *)
(* seat is held                                                            *)
C4_Witness ==
    /\ Settled("create")
    /\ lastResult.outcome = "rejected"
    /\ lastResult.value = SEAT_CONFLICT
    /\ ~HoldsActive(dbReservations, lastResult.call.userId)
    /\ SeatTaken(dbReservations, lastResult.call.seatId)

(* ------------------------------- C5 ------------------------------------ *)
(* C5: while a reservation r made by create is ACTIVE,                      *)
(* getActiveReservation of its user returns exactly r, and it goes on       *)
(* doing so after every step that is not the cancel of r itself: creates    *)
(* and cancels of other reservations do not change the result.              *)
CancelOf(i) ==
    \E p \in InFlight :
        /\ p.call.op = "cancel"
        /\ p.call.target = i
        /\ Resumes(p)

C5_ActiveUntilCanceled ==
    [][\A i \in DOMAIN dbReservations :
        dbReservations[i].status = ACTIVE
        => (/\ GetActiveReservation(dbReservations, dbReservations[i].user_id)
                  = dbReservations[i]
            /\ ~CancelOf(i)
                  => GetActiveReservation(dbReservations', dbReservations[i].user_id)
                        = dbReservations[i])]_vars

(* ------------------------------- C6 ------------------------------------ *)
(* C6: when the continuation of cancel(id) runs and id is the identifier   *)
(* of an ACTIVE reservation r, then afterwards r is CANCELED with a        *)
(* cancellation timestamp, no ACTIVE reservation references r's seat, r's  *)
(* user holds no ACTIVE reservation, and a create on that seat by another  *)
(* user without ACTIVE reservation succeeds.                               *)
C6_CancelFreesSeat ==
    [][\A p \in InFlight :
        (p.call.op = "cancel" /\ Resumes(p))
        => \A i \in DOMAIN dbReservations :
            (/\ dbReservations[i].id = p.call.reservationId
             /\ dbReservations[i].status = ACTIVE)
            => (/\ dbReservations'[i].status = CANCELED
                /\ dbReservations'[i].canceled_at # Undefined
                /\ ~SeatTaken(dbReservations', dbReservations[i].seat_id)
                /\ ~HoldsActive(dbReservations', dbReservations[i].user_id)
                /\ \A other \in UserIds \ {dbReservations[i].user_id} :
                    ~HoldsActive(dbReservations', other)
                    => CreateBody(dbReservations', other,
                                  dbReservations[i].seat_id, now).outcome = "resolved")]_vars

(* ------------------------------- C7 ------------------------------------ *)
(* C7: when the continuation of cancel(id) runs and no reservation of the  *)
(* store has that id, the promise resolves (no error) and seats,           *)
(* reservations and users are exactly as before.                           *)
C7_CancelMissingIsNoOp ==
    [][\A p \in InFlight :
        (/\ p.call.op = "cancel"
         /\ Resumes(p)
         /\ \A i \in DOMAIN dbReservations : dbReservations[i].id # p.call.reservationId)
        => (/\ lastResult'.op = "cancel"
            /\ lastResult'.outcome = "resolved"
            /\ dbSeats' = dbSeats
            /\ dbReservations' = dbReservations
            /\ dbUsers' = dbUsers)]_vars

(* a cancel of an unknown id has settled in a store that holds an ACTIVE   *)
(* reservation                                                             *)
C7_Witness ==
    /\ Settled("cancel")
    /\ \A i \in DOMAIN dbReservations : dbReservations[i].id # lastResult.call.reservationId
    /\ \E i \in DOMAIN dbReservations : dbReservations[i].status = ACTIVE

(* ------------------------------- C8 ------------------------------------ *)
(* C8: the value getHistory(user) resolves with holds exactly the stored   *)
(* reservations of that user, each once, ACTIVE and CANCELED alike, none   *)
(* of another user; it is ordered by start time descending; the stored     *)
(* list is the same before and after.                                      *)
C8_HistoryOfUser ==
    [][\A p \in InFlight :
        (p.call.op = "getHistory" /\ Resumes(p))
        => LET history == lastResult'.value
               owner == p.call.userId
           IN  /\ lastResult'.op = "getHistory"
               /\ lastResult'.outcome = "resolved"
               /\ \A k \in DOMAIN history :
                    /\ history[k].user_id = owner
                    /\ history[k] \in Range(dbReservations)
               /\ \A i \in DOMAIN dbReservations :
                    dbReservations[i].user_id = owner
                    => /\ dbReservations[i] \in Range(history)
                       /\ Occurrences(history)[dbReservations[i]]
                            = Occurrences(dbReservations)[dbReservations[i]]
               /\ \A k, l \in DOMAIN history :
                    k < l => GetTime(history[k].start_at) >= GetTime(history[l].start_at)
               /\ dbReservations' = dbReservations]_vars

(* a history with a CANCELED and an ACTIVE reservation, returned in the    *)
(* reverse of the stored order, from a store that also holds another       *)
(* user's reservation                                                      *)
C8_Witness ==
    /\ Settled("getHistory")
    /\ Len(lastResult.value) >= 2
    /\ \A k \in DOMAIN lastResult.value : lastResult.value[k] \in Range(dbReservations)
    /\ \E k, l \in DOMAIN lastResult.value :
        /\ lastResult.value[k].status = ACTIVE
        /\ lastResult.value[l].status = CANCELED
        /\ k < l
        /\ GetTime(lastResult.value[k].start_at) > GetTime(lastResult.value[l].start_at)
    /\ \E i \in DOMAIN dbReservations : dbReservations[i].user_id # lastResult.call.userId

(* ------------------------------- C9 ------------------------------------ *)
(* C9: the value getSeats(floor) resolves with holds exactly the seats of  *)
(* that floor, all seats when no floor is given; a seat is marked OCCUPIED *)
(* if and only if an ACTIVE reservation references its id at that moment,  *)
(* AVAILABLE otherwise; the store is unchanged and the stored seats carry  *)
(* no status.                                                              *)
C9_SeatsOfFloor ==
    [][\A p \in InFlight :
        (p.call.op = "getSeats" /\ Resumes(p))
        => LET result == lastResult'.value
               floor == p.call.floor
               expected == {s \in Range(dbSeats) : floor # Undefined => s.floor = floor[1]}
           IN  /\ lastResult'.outcome = "resolved"
               /\ {result[k].id : k \in DOMAIN result} = {s.id : s \in expected}
               /\ Len(result) = Cardinality(expected)
               /\ \A k \in DOMAIN result :
                    result[k].status =
                        IF SeatTaken(dbReservations, result[k].id) THEN "OCCUPIED" ELSE "AVAILABLE"
               /\ dbSeats' = dbSeats
               /\ dbReservations' = dbReservations
               /\ dbUsers' = dbUsers
               /\ \A k \in DOMAIN dbSeats : "status" \notin DOMAIN dbSeats[k]]_vars

(* ------------------------------- C10 ----------------------------------- *)
(* getSeats(1) resolved with a seat of this id carrying this status *)
Marks(result, seatId, status) ==
    \E k \in DOMAIN result : result[k].id = seatId /\ result[k].status = status

(* the scenario of one seat in a fresh store, step by step:                 *)
(*   user A's create for the seat was the first to succeed: getSeats(1)     *)
(*     marks the seat OCCUPIED;                                            *)
(*   A cancels that reservation: it is CANCELED, and getSeats(1) marks the  *)
(*     seat AVAILABLE;                                                     *)
(*   user B's create for the seat then succeeds.                           *)
Scenario(seatId) ==
    \A p \in InFlight :
        Resumes(p) =>
            /\ (/\ p.call.op = "getSeats"
                /\ p.call.floor = <<1>>
                /\ Len(dbReservations) = 1
                /\ dbReservations[1].seat_id = seatId
                /\ dbReservations[1].status = ACTIVE)
               => Marks(lastResult'.value, seatId, "OCCUPIED")
            /\ (/\ p.call.op = "cancel"
                /\ Len(dbReservations) = 1
                /\ dbReservations[1].seat_id = seatId
                /\ dbReservations[1].status = ACTIVE
                /\ p.call.reservationId = dbReservations[1].id)
               => (Len(dbReservations') = 1 /\ dbReservations'[1].status = CANCELED)
            /\ (/\ p.call.op = "getSeats"
                /\ p.call.floor = <<1>>
                /\ Len(dbReservations) = 1
                /\ dbReservations[1].seat_id = seatId
                /\ dbReservations[1].status = CANCELED)
               => Marks(lastResult'.value, seatId, "AVAILABLE")
            /\ (/\ p.call.op = "create"
                /\ p.call.seatId = seatId
                /\ Len(dbReservations) = 1
                /\ dbReservations[1].seat_id = seatId
                /\ dbReservations[1].status = CANCELED
                /\ p.call.userId # dbReservations[1].user_id)
               => (/\ lastResult'.outcome = "resolved"
                   /\ Len(dbReservations') = 2
                   /\ dbReservations'[2].seat_id = seatId
                   /\ dbReservations'[2].user_id = p.call.userId
                   /\ dbReservations'[2].status = ACTIVE)

(* C10 as stated: the scenario holds for the seat id `seat-1-01`.          *)
C10_Scenario_seat_1_01 == [][Scenario(Seat_1_01)]_vars

(* C10 amended: the scenario holds for the seat id `seat-1-1`, the id      *)
(* generateSeats gives the seat labelled 1F-01.                            *)
C10_Scenario_seat_1_1 == [][Scenario(SeatId(1, 1))]_vars

(* the end of the scenario: A's reservation of seat-1-1 is CANCELED, B's   *)
(* create for seat-1-1 has just resolved, and seat-1-1 is a seat of        *)
(* getSeats(1), marked OCCUPIED for B                                      *)
C10_Witness ==
    /\ Settled("create")
    /\ lastResult.outcome = "resolved"
    /\ Len(dbReservations) = 2
    /\ dbReservations[1].seat_id = SeatId(1, 1)
    /\ dbReservations[1].status = CANCELED
    /\ dbReservations[2] = lastResult.value
    /\ dbReservations[2].seat_id = SeatId(1, 1)
    /\ dbReservations[2].user_id # dbReservations[1].user_id
    /\ dbReservations[2].status = ACTIVE
    /\ Marks(GetSeats(dbSeats, dbReservations, <<1>>), SeatId(1, 1), "OCCUPIED")

(* ------------------------------- C11 ----------------------------------- *)
(* C11: sendMessageToGemini never raises to its caller: every call ends by *)
(* returning.  Without an API credential (no client) no external call is   *)
(* ever in flight and every call returns the offline text; a call whose     *)
(* external request failed, by rejection or by throwing, returns the        *)
(* connection-trouble text.                                                *)
C11_SendNeverRaises ==
    /\ aiClient = Null
       => /\ request = Null
          /\ returned # NoReturn => returned.cause = "offline"
    /\ returned # NoReturn
       => /\ returned.outcome = "returned"
          /\ returned.cause = "offline"
             => aiClient = Null /\ returned.value = OFFLINE_REPLY
          /\ returned.cause \in {"rejected", "threw"}
             => returned.value = CONNECT_REPLY

(* a second exchange whose external call was rejected: the reply shown is  *)
(* the connection-trouble text                                             *)
C11_Witness ==
    /\ returned # NoReturn
    /\ returned.cause = "rejected"
    /\ Len(messages) = 5
    /\ messages[5] = [role |-> "model", text |-> CONNECT_REPLY]
    /\ ~chatIsLoading

(* ------------------------------- C12 ----------------------------------- *)
(* C12: a login that resumes resolves with the stored user of its e-mail   *)
(* and leaves the user list alone, or, if no user has that e-mail, with a  *)
(* new user of that e-mail which it appends, and nothing else; a login     *)
(* settled right after a login of the same e-mail resolves with the same   *)
(* user id.  In every step the old user list is a prefix of the new one    *)
(* (no user is removed or changed) and the new list has at most one user   *)
(* per e-mail.                                                             *)
C12_LoginFindsOrCreatesOne ==
    [][/\ Len(dbUsers') >= Len(dbUsers)
       /\ SubSeq(dbUsers', 1, Len(dbUsers)) = dbUsers
       /\ \A i, j \in DOMAIN dbUsers' :
            dbUsers'[i].email = dbUsers'[j].email => i = j
       /\ \A p \in InFlight :
            (p.call.op = "login" /\ Resumes(p))
            => /\ lastResult'.op = "login"
               /\ lastResult'.outcome = "resolved"
               /\ lastResult'.value.email = p.call.email
               /\ lastResult'.value \in Range(dbUsers')
               /\ IF \E i \in DOMAIN dbUsers : dbUsers[i].email = p.call.email
                  THEN /\ lastResult'.value \in Range(dbUsers)
                       /\ dbUsers' = dbUsers
                  ELSE dbUsers' = Append(dbUsers, lastResult'.value)
               /\ (lastResult.op = "login" /\ lastResult.call.email = p.call.email)
                  => lastResult'.value.id = lastResult.value.id]_vars

(* a login resolved with the second stored user after a third user had    *)
(* been created: a repeated login that returned the existing user          *)
C12_Witness ==
    /\ lastResult.op = "login"
    /\ Len(dbUsers) = 3
    /\ lastResult.value = dbUsers[2]
    /\ lastResult.call.email = dbUsers[2].email

(* ------------------------------- C13 ----------------------------------- *)
(* C13: after every step at most one interval timer is armed, none unless  *)
(* the view is HOME, and an armed timer is the one of the selected floor   *)
(* (the timer of the floor left was cleared); a seat query started by a    *)
(* timer is started only while the view is HOME.                           *)
C13_OneTimerOnlyInHome ==
    [][/\ Len(interval') <= 1
       /\ view' # HOME => interval' = <<>>
       /\ \A i \in DOMAIN interval' : interval'[i].floor = selectedFloor'
       /\ \A q \in BagToSet(pending') :
            (/\ q.k.by = "interval"
             /\ CopiesIn(q, pending') > CopiesIn(q, pending))
            => /\ view = HOME
               /\ view' = HOME
               /\ q.call.op = "getSeats"]_vars

(* the timer of floor 2 is armed while a seat query that the cleared timer *)
(* of floor 1 started is still in flight                                   *)
C13_Witness ==
    /\ view = HOME
    /\ interval = <<[floor |-> 2]>>
    /\ selectedFloor = 2
    /\ \E q \in InFlight : q.k.by = "interval" /\ q.k.floor = 1

(* ------------------------------- C14 ----------------------------------- *)
(* C14: of the mutating calls the UI has issued (create, cancel) at most   *)
(* one is in flight, its delay timer armed, at any time.                   *)
C14_OneMutationInFlight ==
    CountInFlight({"create", "cancel"}) <= 1

(* ------------------------------- C17 ----------------------------------- *)
(* C17: a seat query in flight leaves the waiting calls only by resuming,  *)
(* and the step in which it does writes its response, the seats of the     *)
(* floor it was called with, to the displayed seat list, whatever the      *)
(* view and the selected floor are by then.                                *)
C17_SeatResponseAlwaysWritten ==
    [][\A p \in InFlight :
        (/\ p.call.op = "getSeats"
         /\ CopiesIn(p, pending') < CopiesIn(p, pending))
        => seats' = GetSeats(dbSeats, dbReservations, p.call.floor)]_vars

(* nothing is in flight, floor 2 is selected in HOME, and the list shown   *)
(* is that of floor 1 with the user's reserved seat OCCUPIED: the reload   *)
(* at the end of handleReserve wrote the floor captured at the click       *)
C17_Witness ==
    /\ view = HOME
    /\ pending = EmptyBag
    /\ selectedFloor = 2
    /\ seats # <<>>
    /\ \A i \in DOMAIN seats : seats[i].floor = 1
    /\ activeReservation # Null
    /\ \E i \in DOMAIN seats :
        seats[i].id = activeReservation.seat_id /\ seats[i].status = "OCCUPIED"

(* ------------------------------- C19 ----------------------------------- *)
(* C19: whenever the view is HOME or MY_RESERVATIONS, the active           *)
(* reservation held by App, if any, and every entry of the reservation     *)
(* history held by App are reservations of the logged-in user.             *)
C19_StateOfCurrentUser ==
    view \in {HOME, MY_RESERVATIONS}
    => /\ user # Null
       /\ activeReservation # Null => activeReservation.user_id = user.id
       /\ \A i \in DOMAIN reservations : reservations[i].user_id = user.id

C16_AppendOnlyCancelOnly ==
    [][/\ Len(dbReservations') >= Len(dbReservations)
       /\ \A i \in DOMAIN dbReservations :
            LET old == dbReservations[i]
                new == dbReservations'[i]
            IN  /\ new.id = old.id
                /\ new.seat_id = old.seat_id
                /\ new.user_id = old.user_id
                /\ new.start_at = old.start_at
                /\ new.end_at = old.end_at
                /\ old.status = CANCELED => new.status = CANCELED
                /\ new # old
                   => /\ new.status = CANCELED
                      /\ new.canceled_at = ToISOString(now)
                      /\ \E p \in InFlight :
                            /\ p.call.op = "cancel"
                            /\ p.call.reservationId = old.id
                            /\ Resumes(p)]_vars

(* the first reservation was canceled, its user reserved again, and a      *)
(* second cancel of the first has just stamped it anew: it is still        *)
(* CANCELED, the second is untouched                                       *)
C16_Witness ==
    /\ Len(dbReservations) = 2
    /\ dbReservations[1].status = CANCELED
    /\ dbReservations[2].status = ACTIVE
    /\ dbReservations[1].user_id = dbReservations[2].user_id
    /\ dbReservations[1].id # dbReservations[2].id
    /\ lastResult.op = "cancel"
    /\ lastResult.call.reservationId = dbReservations[1].id
    /\ dbReservations[1].canceled_at = ToISOString(now)
    /\ GetTime(dbReservations[2].start_at) < now

(* ------------------------------- C18 ----------------------------------- *)
(* C18: no two stored reservations have the same id.                       *)
C18_UniqueIds ==
    \A i, j \in DOMAIN dbReservations :
        dbReservations[i].id = dbReservations[j].id => i = j

====
